---- MODULE Spec2Model ----
(***************************************************************************)
(* MediaAnalyzer: extraction of the sections of a crash report and their   *)
(* layout as size-bounded embeds (cards) grouped in pages.                 *)
(*                                                                         *)
(* Text.  A raw line of a section's content is n copies of one character   *)
(* of class c.  The classes are the ones json.dumps tells apart:           *)
(*   "a"  printable ASCII                       1 character in the dump    *)
(*   "s"  a space (whitespace for str.strip)    1                          *)
(*   "b"  a backtick                            1                          *)
(*   "q"  a double quote or a backslash         2                          *)
(*   "u"  a non-ASCII character of the BMP      6   (\uXXXX)               *)
(*   "U"  a character outside the BMP           12  (a surrogate pair)     *)
(* A line is [src, off, n, c, tail]: the n characters of raw line src      *)
(* from offset off on, the last tail of them   backticks (left over by the *)
(* replacement of a fence by three U+02BC, which are of class "u").            *)
(***************************************************************************)
EXTENDS Integers, Sequences, FiniteSets, TLC

VARIABLES
    pc,                       \* where the call in progress stands
    stage,                    \* the section build_pages is at, "none" outside it
    section_name, content,    \* arguments of build_embeds_for_section
    max_line_len, max_field_chars, max_fields_per_embed,
    lines, i,                 \* the wrapped lines and the index of the next one
    embeds, current_embed, used_title, field_buffer, fields_in_current_embed,
    ret,                      \* the value build_embeds_for_section returned
    exception_text, stacktrace_text, installed_modules_text,  \* build_pages
    exc_embeds, stack_embeds, mods_embeds,
    all_embeds, size, ci, pages, \* chunk_embeds: its arguments, its i, its result
    full_text,                \* fetch_webpage: the text of the page, as tokens
    exception_match, stacktrace_match, modules_match,
    data,                     \* the dict fetch_webpage returns
    handler, url,             \* the handler that runs and the URL it works on
    response,                 \* what session.get and response.text() came to
    sent,                     \* the messages sent with ctx.send or message.reply
    view_pages, index, invoker_id,  \* PaginatedEmbeds: pages, index, invoker_id
    edits, followups,         \* the pages edit_message showed, the followup notes
    awaiting                  \* the button callbacks suspended at their await

args == <<section_name, content, max_line_len, max_field_chars, max_fields_per_embed>>
locals == <<lines, i, embeds, current_embed, used_title, field_buffer,
            fields_in_current_embed>>
secvars == <<args, locals, ret>>
textvars == <<exception_text, stacktrace_text, installed_modules_text>>
pagevars == <<textvars, exc_embeds, stack_embeds, mods_embeds>>
chunkvars == <<all_embeds, size, ci, pages>>
fetchvars == <<full_text, exception_match, stacktrace_match, modules_match, data>>
cogvars == <<handler, url, response, sent>>
viewvars == <<view_pages, index, invoker_id, edits, followups, awaiting>>
vars == <<pc, stage, secvars, pagevars, chunkvars, fetchvars, cogvars, viewvars>>

\* ---------------------------------------------------------------- bounds
MaxRawLines == 2          \* raw lines in the content of one section
MaxFields == 2            \* max_fields_per_embed ranges over 1..MaxFields and 5
MaxReportLines == 2       \* raw lines in the three texts of build_pages together
MaxEmbeds == 12           \* embeds in a list given to chunk_embeds
MaxPageSize == 3          \* chunk_embeds' size ranges over 1..MaxPageSize and 10
MaxDocLines == 4          \* lines of the page fetch_webpage reads
MaxCogLines == 2          \* lines of the page a handler has fetched
MaxWords == 2             \* words of the message on_message reads
MaxViewPages == 3         \* pages of a PaginatedEmbeds view
MaxPresses == 4           \* button presses that reach a callback of the view

\* ------------------------------------------------------------- constants
CARD_BYTE_LIMIT == 6000
DEFAULT_MAX_LINE_LEN == 80
DEFAULT_MAX_FIELD_CHARS == 900
DEFAULT_MAX_FIELDS == 5

None == ""                \* Embed.title of an embed without a title

\* ------------------------------------------------------------------ text
Min(a, b) == IF a < b THEN a ELSE b
Max(a, b) == IF a > b THEN a ELSE b

RECURSIVE SumSeq(_)
SumSeq(s) == IF s = <<>> THEN 0 ELSE Head(s) + SumSeq(Tail(s))

RECURSIVE Flatten(_)
Flatten(ss) == IF ss = <<>> THEN <<>> ELSE Head(ss) \o Flatten(Tail(ss))

\* Characters json.dumps writes for one character of class c.
Width(c) == CASE c = "a" -> 1 [] c = "s" -> 1 [] c = "b" -> 1
              [] c = "q" -> 2 [] c = "u" -> 6 [] c = "U" -> 12

\* len(line) and the length of the line inside a JSON string.
LineLen(l) == l.n
LineJson(l) == (l.n - l.tail) * Width(l.c) + l.tail

\* content as numbered lines: the text of the argument, before any processing.
Text(raw) == [k \in 1..Len(raw) |->
                 [src |-> k, off |-> 0, n |-> raw[k].n, c |-> raw[k].c, tail |-> 0]]

IsSpace(l) == l.n = 0 \/ l.c = "s"

\* str.strip(): leading and trailing whitespace goes, line breaks included.
RECURSIVE LStrip(_)
LStrip(t) == IF t # <<>> /\ IsSpace(Head(t)) THEN LStrip(Tail(t)) ELSE t
RECURSIVE RStrip(_)
RStrip(t) == IF t # <<>> /\ IsSpace(t[Len(t)]) THEN RStrip(SubSeq(t, 1, Len(t) - 1)) ELSE t
Strip(t) == RStrip(LStrip(t))

\* str.replace(fence, three U+02BC), a fence being three backticks: in a run of n backticks the leftmost
\* 3 * (n \div 3) are replaced, n % 3 backticks stay.
ReplaceFences(t) ==
    [k \in 1..Len(t) |->
        IF t[k].c = "b" THEN [t[k] EXCEPT !.c = "u", !.tail = t[k].n % 3] ELSE t[k]]

\* raw_line[a : a + m]
Slice(l, a, m) ==
    [src |-> l.src, off |-> l.off + a, n |-> m, c |-> l.c,
     tail |-> Max(0, Min(m, a + m - (l.n - l.tail)))]

\* Lines 36-40: the pieces "while len(raw_line) > max_len" cuts off, then the
\* rest when it is not empty; piece k starts at offset (k - 1) * max_len.
ChunkLine(l, max_len) ==
    [k \in 1..((l.n + max_len - 1) \div max_len) |->
        Slice(l, (k - 1) * max_len, Min(max_len, l.n - (k - 1) * max_len))]

RECURSIVE safe_line_split(_, _)
safe_line_split(t, max_len) ==
    IF t = <<>> THEN <<>>
    ELSE ChunkLine(Head(t), max_len) \o safe_line_split(Tail(t), max_len)

\* ---------------------------------------------------------------- embeds
\* len("\n".join(ls)) and the length of that string inside a JSON string.
JoinLen(ls) == IF ls = <<>> THEN 0
               ELSE SumSeq([k \in 1..Len(ls) |-> LineLen(ls[k])]) + (Len(ls) - 1)
JoinJson(ls) == IF ls = <<>> THEN 0
                ELSE SumSeq([k \in 1..Len(ls) |-> LineJson(ls[k])]) + 2 * (Len(ls) - 1)

\* A field is the sequence of lines of its value; the value is the lines
\* joined by line breaks between two fences of three backticks.
FENCE_CHARS == 6
FieldValueLen(f) == FENCE_CHARS + JoinLen(f)
FieldValueJson(f) == FENCE_CHARS + JoinJson(f)

\* json.dumps(embed.to_dict()):
\*   {"fields": [F, F, ...], "color": 3447003, "type": "rich", "title": "T"}
\*   F = {"inline": false, "name": "\u200b", "value": "V"}
\* "fields" is there when the embed has fields and "title" when it has a title.
\* "description" is there when the embed has a description.  The colour is
\* written as a number: blue is 3447003 and red is 15158332.
EMBED_BASE_JSON == 27
TITLE_KEY_JSON == 13
DESCRIPTION_KEY_JSON == 19
FIELDS_KEY_JSON == 14
FIELD_DICT_JSON == 48
SEPARATOR_JSON == 2

embed_size(embed) ==
    EMBED_BASE_JSON + (IF embed.color = "blue" THEN 7 ELSE 8)
    + (IF embed.title # None THEN TITLE_KEY_JSON + Len(embed.title) ELSE 0)
    + (IF embed.description # None
       THEN DESCRIPTION_KEY_JSON + Len(embed.description) ELSE 0)
    + (IF embed.fields # <<>>
       THEN FIELDS_KEY_JSON
            + SumSeq([k \in 1..Len(embed.fields) |->
                         FIELD_DICT_JSON + FieldValueJson(embed.fields[k])])
            + SEPARATOR_JSON * (Len(embed.fields) - 1)
       ELSE 0)

\* discord.Embed(color=discord.Color.blue()) with the title set to title.
Embed(title) == [title |-> title, description |-> None, color |-> "blue", fields |-> <<>>]
add_field(embed, f) == [embed EXCEPT !.fields = Append(@, f)]

\* finalize_field that adds the field without measuring the embed.
finalize_field_unmeasured(embed_obj, lines_for_field) ==
    [ok |-> TRUE, embed |-> add_field(embed_obj, lines_for_field)]

\* finalize_field: [ok, embed], the flag returned and embed_obj afterwards.
finalize_field(embed_obj, lines_for_field) ==
    LET test_embed == add_field(embed_obj, lines_for_field)
    IN  IF embed_size(test_embed) <= CARD_BYTE_LIMIT
        THEN [ok |-> TRUE, embed |-> test_embed]
        ELSE [ok |-> FALSE, embed |-> embed_obj]

\* push_current_embed that stores the embed whether or not it has a field.
push_current_embed_any(embs, cur) ==
    IF embed_size(cur) <= CARD_BYTE_LIMIT THEN Append(embs, cur) ELSE embs

\* push_current_embed: the list embeds afterwards.
push_current_embed(embs, cur) ==
    IF Len(cur.fields) > 0 /\ embed_size(cur) <= CARD_BYTE_LIMIT
    THEN Append(embs, cur) ELSE embs

\* "current_embed = discord.Embed(...); if not used_title: ..." on state s.
StartNewEmbed(s, name) ==
    [s EXCEPT !.current_embed = Embed(IF s.used_title THEN None ELSE name),
              !.used_title = TRUE]

\* The same without the push of the embed that is full.
FinalizeOrRoll_nopush(s, name) ==
    LET first == finalize_field(s.current_embed, s.field_buffer)
    IN  IF first.ok
        THEN [s EXCEPT !.current_embed = first.embed]
        ELSE LET fresh == StartNewEmbed(s, name)
             IN  [fresh EXCEPT !.current_embed =
                                   finalize_field(fresh.current_embed, s.field_buffer).embed]

\* "if not finalize_field(...): push; new embed; finalize_field(...)" on s,
\* as written at lines 112-120, 138-144 and 157-163.
FinalizeOrRoll(s, name) ==
    LET first == finalize_field(s.current_embed, s.field_buffer)
    IN  IF first.ok
        THEN [s EXCEPT !.current_embed = first.embed]
        ELSE LET pushed == [s EXCEPT !.embeds = push_current_embed(s.embeds, s.current_embed)]
                 fresh == StartNewEmbed(pushed, name)
             IN  [fresh EXCEPT !.current_embed =
                                   finalize_field(fresh.current_embed, s.field_buffer).embed]

\* Lines 60-103: the state at the top of the loop.
EnterState(name) ==
    [embeds |-> <<>>, current_embed |-> Embed(name), used_title |-> TRUE,
     field_buffer |-> <<>>, fields_in_current_embed |-> 0]

Prepare(raw, max_len) == safe_line_split(ReplaceFences(Strip(Text(raw))), max_len)

\* The comparison of the field count with > in place of >=.
ReachedMaxFields_strict(count, fields_per_embed) == count > fields_per_embed

\* "fields_in_current_embed >= max_fields_per_embed" (line 125) and
\* "len(current_embed.fields) >= max_fields_per_embed" (lines 136, 148).
ReachedMaxFields(count, fields_per_embed) == count >= fields_per_embed

\* Lines 105-153: one iteration of "for line in lines".
LoopBody(s, line, name, field_chars, fields_per_embed) ==
    LET \* lines 108-131
        s1 == IF JoinLen(Append(s.field_buffer, line)) > field_chars
              THEN LET a == IF s.field_buffer # <<>>
                            THEN LET f == FinalizeOrRoll(s, name)
                                 IN  [f EXCEPT !.field_buffer = <<>>,
                                               !.fields_in_current_embed =
                                                   Len(f.current_embed.fields)]
                            ELSE s
                   IN  IF ReachedMaxFields(a.fields_in_current_embed, fields_per_embed)
                       THEN LET p == [a EXCEPT !.embeds =
                                          push_current_embed(a.embeds, a.current_embed)]
                            IN  [StartNewEmbed(p, name) EXCEPT !.fields_in_current_embed = 0]
                       ELSE a
              ELSE s
        \* line 134
        s2 == [s1 EXCEPT !.field_buffer = Append(@, line)]
    IN  \* lines 136-153
        IF ReachedMaxFields(Len(s2.current_embed.fields), fields_per_embed)
        THEN LET b == IF s2.field_buffer # <<>>
                      THEN LET f == FinalizeOrRoll(s2, name)
                           IN  [f EXCEPT !.field_buffer = <<>>,
                                         !.fields_in_current_embed =
                                             Len(f.current_embed.fields)]
                      ELSE s2
             IN  IF ReachedMaxFields(Len(b.current_embed.fields), fields_per_embed)
                 THEN StartNewEmbed([b EXCEPT !.embeds =
                                        push_current_embed(b.embeds, b.current_embed)], name)
                 ELSE b
        ELSE s2

\* Lines 155-171: the state at the return statement; embeds is the result.
ExitState(s, name) ==
    LET a == IF s.field_buffer # <<>>
             THEN [FinalizeOrRoll(s, name) EXCEPT !.field_buffer = <<>>]
             ELSE s
    IN  [a EXCEPT !.embeds = push_current_embed(a.embeds, a.current_embed)]

\* ---------------------------------------------------------------- inputs
SectionNames == {"Exception", "Enhanced Stacktrace", "Installed Modules"}

RawLine(n, c) == [n |-> n, c |-> c]
RawLineKinds ==
    { RawLine(0, "a"),      \* an empty line
      RawLine(2, "s"),      \* a line of spaces
      RawLine(4, "b"),      \* a fence and one more backtick
      RawLine(889, "a"),    \* wraps to 12 lines of 900 characters when joined
      RawLine(880, "u"),    \* one field of 5280 serialized characters
      RawLine(560, "U"),    \* one field too large for any embed
      RawLine(490, "U") }   \* one field that fits an embed only without title

SeqsUpTo(S, n) == UNION {[1..k -> S] : k \in 0..n}
Contents == SeqsUpTo(RawLineKinds, MaxRawLines)
FieldCounts == (1..MaxFields) \cup {DEFAULT_MAX_FIELDS}

PageLineKinds ==
    { RawLine(9680, "u"),   \* eleven fields, each filling an embed
      RawLine(5335, "a"),   \* six fields, one more than an embed takes
      RawLine(560, "U") }   \* one field too large for any embed
PageContents == SeqsUpTo(PageLineKinds, MaxReportLines)

\* ----------------------------------------------- build_embeds_for_section
State == [embeds |-> embeds, current_embed |-> current_embed, used_title |-> used_title,
          field_buffer |-> field_buffer,
          fields_in_current_embed |-> fields_in_current_embed]

SetState(s) ==
    /\ embeds' = s.embeds
    /\ current_embed' = s.current_embed
    /\ used_title' = s.used_title
    /\ field_buffer' = s.field_buffer
    /\ fields_in_current_embed' = s.fields_in_current_embed


\* ---------------------------------------------------------- chunk_embeds
MAX_EMBEDS_PER_MESSAGE == 10

\* The slice with its end one too far: embeds[i : i + size + 1].
ChunkSlice_overlap(embs, k, n) == SubSeq(embs, k + 1, Min(k + n + 1, Len(embs)))

\* embeds[i : i + size], i counted from 0 as in the code.
ChunkSlice(embs, k, n) == SubSeq(embs, k + 1, Min(k + n, Len(embs)))

RECURSIVE ChunkFrom(_, _, _)
ChunkFrom(embs, k, n) ==
    IF k >= Len(embs) THEN <<>>
    ELSE <<ChunkSlice(embs, k, n)>> \o ChunkFrom(embs, k + n, n)

chunk_embeds(embs, n) == ChunkFrom(embs, 0, n)

\* ------------------------------------------------------------ build_pages
empty_embed ==
    [title |-> "No Crash Report Data Found",
     description |-> "Could not find Exception, Enhanced Stacktrace, or Installed Modules.",
     color |-> "red", fields |-> <<>>]

\* The same without the test for an empty list.
PagesOf_noplaceholder(exc, stack, mods) ==
    chunk_embeds(exc \o stack \o mods, MAX_EMBEDS_PER_MESSAGE)

\* Lines 352-363, from the three lists of embeds.
PagesOf(exc, stack, mods) ==
    LET all == exc \o stack \o mods
    IN  IF all = <<>> THEN << <<empty_embed>> >>
        ELSE chunk_embeds(all, MAX_EMBEDS_PER_MESSAGE)

\* ---------------------------------------------------------- fetch_webpage
(***************************************************************************)
(* The text of the page is a sequence of tokens:                           *)
(*   "NL"  a line break            "SP"  a space                           *)
(*   "+"   a marker, + or -        "("   an opening parenthesis            *)
(*   one of the headings of headings_pattern, in any letter case           *)
(*   any other string: a word without whitespace, marker or parenthesis    *)
(* The regular expressions of fetch_webpage are matched on the tokens as   *)
(* re matches them on the characters.                                      *)
(***************************************************************************)
headings_pattern ==
    {"Exception", "Enhanced Stacktrace", "Installed Modules", "Loaded BLSE Plugins",
     "Involved Modules and Plugins", "Assemblies", "Native Assemblies",
     "Harmony Patches", "Log Files", "Mini Dump", "Save File", "Screenshot",
     "Screenshot Data", "Json Model Data"}

IsWs(t) == t \in {"NL", "SP"}

\* The position after the run of whitespace that starts at p (\s*).
SkipWs(t, p) ==
    CHOOSE q \in p..(Len(t) + 1) :
        /\ q = Len(t) + 1 \/ ~IsWs(t[q])
        /\ \A r \in p..(q - 1) : IsWs(t[r])

\* (?=\n[+-]\s*HEADING|\Z) at position e.
Lookahead(t, e) ==
    \/ e = Len(t) + 1
    \/ /\ e + 1 <= Len(t) /\ t[e] = "NL" /\ t[e + 1] = "+"
       /\ LET q == SkipWs(t, e + 2) IN q <= Len(t) /\ t[q] \in headings_pattern

NoMatch == [found |-> FALSE, start |-> 0, from |-> 0, to |-> 0]

\* [+-]\s*LABEL\s+([\s\S]+?)(?=...) tried at position p: start is p and
\* group(1) is t[from..to].  \s+ takes the whole run of whitespace, less its
\* last token when the run ends the text, the group needing one character.
MatchAt(t, p, label) ==
    IF t[p] # "+" THEN NoMatch
    ELSE LET q == SkipWs(t, p + 1)
         IN  IF q > Len(t) \/ t[q] # label THEN NoMatch
             ELSE LET r == SkipWs(t, q + 1)
                      g == IF r <= Len(t) THEN r ELSE Len(t)
                  IN  IF r = q + 1 \/ (r > Len(t) /\ r - (q + 1) < 2) THEN NoMatch
                      ELSE [found |-> TRUE, start |-> p, from |-> g,
                            to |-> (CHOOSE e \in (g + 1)..(Len(t) + 1) :
                                       /\ Lookahead(t, e)
                                       /\ \A x \in (g + 1)..(e - 1) : ~Lookahead(t, x)) - 1]

\* regex.search(full_text): the match at the leftmost position that has one.
Search(t, label) ==
    LET hits == {p \in 1..Len(t) : MatchAt(t, p, label).found}
    IN  IF hits = {} THEN NoMatch
        ELSE MatchAt(t, CHOOSE p \in hits : \A x \in hits : p <= x, label)

Group1(t, m) == SubSeq(t, m.from, m.to)

\* str.strip() of a token sequence.
StripWs(t) ==
    IF \A k \in 1..Len(t) : IsWs(t[k]) THEN <<>>
    ELSE LET a == CHOOSE k \in 1..Len(t) : ~IsWs(t[k]) /\ \A x \in 1..(k - 1) : IsWs(t[x])
             b == CHOOSE k \in 1..Len(t) : ~IsWs(t[k]) /\ \A x \in (k + 1)..Len(t) : IsWs(t[x])
         IN  SubSeq(t, a, b)

\* re.findall(r"^[+-]\s+(.*?)(?:\(|$)", block, re.MULTILINE) from position p
\* on: the captures, in order.
RECURSIVE FindModLines(_, _)
FindModLines(t, p) ==
    IF p > Len(t) THEN <<>>
    ELSE IF (p = 1 \/ t[p - 1] = "NL") /\ t[p] = "+" /\ SkipWs(t, p + 1) > p + 1
         THEN LET r == SkipWs(t, p + 1)
                  e == CHOOSE k \in r..(Len(t) + 1) :
                           /\ k = Len(t) + 1 \/ t[k] \in {"(", "NL"}
                           /\ \A x \in r..(k - 1) : t[x] \notin {"(", "NL"}
              IN  <<SubSeq(t, r, e - 1)>>
                      \o FindModLines(t, IF e <= Len(t) /\ t[e] = "(" THEN e + 1 ELSE e)
         ELSE FindModLines(t, p + 1)

\* Lines 289-295: the names of the modules, one per line of the text returned.
ModNames(t, m) ==
    IF ~m.found THEN <<>>
    ELSE LET mod_lines == FindModLines(Group1(t, m), 1)
             stripped == [k \in 1..Len(mod_lines) |-> StripWs(mod_lines[k])]
         IN  SelectSeq(stripped, LAMBDA n : n # <<>>)

\* The lines of t, the line breaks left out.
RECURSIVE SplitLines(_)
SplitLines(t) ==
    IF \A k \in 1..Len(t) : t[k] # "NL" THEN <<t>>
    ELSE LET b == CHOOSE k \in 1..Len(t) : t[k] = "NL" /\ \A x \in 1..(k - 1) : t[x] # "NL"
         IN  <<SubSeq(t, 1, b - 1)>> \o SplitLines(SubSeq(t, b + 1, Len(t)))

NoData == [exception |-> <<>>, enhanced_stacktrace |-> <<>>, installed_modules |-> <<>>]

\* No request made yet.
NoResponse == [kind |-> "none", status |-> 0, text |-> <<>>]

\* ------------------------------------------------------------------ state
Init ==
    /\ pc = "idle" /\ stage = "none"
    /\ section_name = None /\ content = <<>>
    /\ max_line_len = DEFAULT_MAX_LINE_LEN
    /\ max_field_chars = DEFAULT_MAX_FIELD_CHARS
    /\ max_fields_per_embed = DEFAULT_MAX_FIELDS
    /\ lines = <<>> /\ i = 1
    /\ embeds = <<>> /\ current_embed = Embed(None) /\ used_title = FALSE
    /\ field_buffer = <<>> /\ fields_in_current_embed = 0
    /\ ret = <<>>
    /\ exception_text = <<>> /\ stacktrace_text = <<>> /\ installed_modules_text = <<>>
    /\ exc_embeds = <<>> /\ stack_embeds = <<>> /\ mods_embeds = <<>>
    /\ all_embeds = <<>> /\ size = MAX_EMBEDS_PER_MESSAGE /\ ci = 0 /\ pages = <<>>
    /\ full_text = <<>>
    /\ exception_match = NoMatch /\ stacktrace_match = NoMatch /\ modules_match = NoMatch
    /\ data = NoData
    /\ handler = "none" /\ url = None /\ response = NoResponse /\ sent = <<>>
    /\ view_pages = <<>> /\ index = 0 /\ invoker_id = 0
    /\ edits = <<>> /\ followups = <<>> /\ awaiting = <<>>

\* ----------------------------------------------- build_embeds_for_section
\* Lines 60-103, the call made from state pc = at.
EnterFrom(at, name, raw, line_len, field_chars, fields_per_embed) ==
    /\ pc = at
    /\ section_name' = name /\ content' = raw
    /\ max_line_len' = line_len /\ max_field_chars' = field_chars
    /\ max_fields_per_embed' = fields_per_embed
    /\ i' = 1
    /\ IF Strip(Text(raw)) = <<>>
       THEN /\ pc' = "returned" /\ ret' = <<>>
            /\ UNCHANGED <<cogvars, viewvars, lines, embeds, current_embed, used_title, field_buffer,
                           fields_in_current_embed>>
       ELSE /\ pc' = "loop" /\ ret' = ret
            /\ lines' = Prepare(raw, line_len)
            /\ SetState(EnterState(name))
    /\ UNCHANGED <<cogvars, viewvars, stage, pagevars, chunkvars, fetchvars>>

\* A call with the default max_line_len and max_field_chars.
Enter(name, raw, fields_per_embed) ==
    EnterFrom("idle", name, raw, DEFAULT_MAX_LINE_LEN, DEFAULT_MAX_FIELD_CHARS,
              fields_per_embed)

\* Lines 105-153.
LoopStep ==
    /\ pc = "loop" /\ i <= Len(lines)
    /\ SetState(LoopBody(State, lines[i], section_name, max_field_chars,
                         max_fields_per_embed))
    /\ i' = i + 1
    /\ UNCHANGED <<cogvars, viewvars, pc, stage, args, lines, ret, pagevars, chunkvars, fetchvars>>

\* Lines 155-171.
Exit ==
    /\ pc = "loop" /\ i > Len(lines)
    /\ LET s == ExitState(State, section_name)
       IN  SetState(s) /\ ret' = s.embeds
    /\ pc' = "returned"
    /\ UNCHANGED <<cogvars, viewvars, stage, args, lines, i, pagevars, chunkvars, fetchvars>>

Next ==
    \/ pc = "idle" /\ \E name \in SectionNames, raw \in Contents, m \in FieldCounts :
                            Enter(name, raw, m)
    \/ LoopStep
    \/ Exit

Spec == Init /\ [][Next]_vars

\* ----------------------------------------------------------- chunk_embeds
\* Lines 178-181, one action per iteration of "for i in range(0, len, size)".
ChunkEnter(embs, n) ==
    /\ pc = "idle"
    /\ all_embeds' = embs /\ size' = n /\ ci' = 0 /\ pages' = <<>>
    /\ pc' = "chunking"
    /\ UNCHANGED <<cogvars, viewvars, stage, secvars, pagevars, fetchvars>>

ChunkStep ==
    /\ pc = "chunking" /\ ci < Len(all_embeds)
    /\ pages' = Append(pages, ChunkSlice(all_embeds, ci, size))
    /\ ci' = ci + size
    /\ UNCHANGED <<cogvars, viewvars, pc, stage, all_embeds, size, secvars, pagevars, fetchvars>>

ChunkReturn ==
    /\ pc = "chunking" /\ ci >= Len(all_embeds)
    /\ pc' = "chunked"
    /\ UNCHANGED <<cogvars, viewvars, stage, secvars, pagevars, chunkvars, fetchvars>>

\* An embed of one field of one line, told apart by k.
SampleEmbed(k) ==
    add_field(Embed(None), <<[src |-> k, off |-> 0, n |-> 1, c |-> "a", tail |-> 0]>>)
EmbedLists == {[k \in 1..m |-> SampleEmbed(k)] : m \in 0..MaxEmbeds}
PageSizes == (1..MaxPageSize) \cup {MAX_EMBEDS_PER_MESSAGE}

NextChunk ==
    \/ pc = "idle" /\ \E embs \in EmbedLists, n \in PageSizes : ChunkEnter(embs, n)
    \/ ChunkStep
    \/ ChunkReturn

SpecChunk == Init /\ [][NextChunk]_vars

\* ------------------------------------------------------------ build_pages
\* The report: the three texts fetch_webpage hands over.
Reports ==
    {r \in PageContents \X PageContents \X PageContents :
        Len(r[1]) + Len(r[2]) + Len(r[3]) <= MaxReportLines}

\* Lines 318-328: build_pages is called, from state pc = at, with the texts r.
PagesEnterFrom(at, r) ==
    /\ pc = at
    /\ exception_text' = r[1] /\ stacktrace_text' = r[2] /\ installed_modules_text' = r[3]
    /\ pc' = "call" /\ stage' = "exc"
    /\ UNCHANGED <<viewvars, secvars, exc_embeds, stack_embeds, mods_embeds, chunkvars,
                   fetchvars>>

PagesEnter(r) == PagesEnterFrom("idle", r) /\ UNCHANGED cogvars

StageName == CASE stage = "exc" -> "Exception"
               [] stage = "stack" -> "Enhanced Stacktrace"
               [] stage = "mods" -> "Installed Modules"
StageText == CASE stage = "exc" -> exception_text
               [] stage = "stack" -> stacktrace_text
               [] stage = "mods" -> installed_modules_text

\* Lines 330-350: the call of build_embeds_for_section for the section at hand.
CallSection ==
    /\ stage # "none"
    /\ EnterFrom("call", StageName, StageText, DEFAULT_MAX_LINE_LEN,
                 DEFAULT_MAX_FIELD_CHARS, DEFAULT_MAX_FIELDS)

\* Lines 330, 337, 344: the list returned is bound and the next call is due.
Collect ==
    /\ pc = "returned" /\ stage # "none"
    /\ exc_embeds' = IF stage = "exc" THEN ret ELSE exc_embeds
    /\ stack_embeds' = IF stage = "stack" THEN ret ELSE stack_embeds
    /\ mods_embeds' = IF stage = "mods" THEN ret ELSE mods_embeds
    /\ stage' = CASE stage = "exc" -> "stack" [] stage = "stack" -> "mods"
                  [] stage = "mods" -> "done"
    /\ pc' = IF stage = "mods" THEN "concat" ELSE "call"
    /\ UNCHANGED <<cogvars, viewvars, secvars, textvars, chunkvars, fetchvars>>

\* Lines 352-363.
PagesReturn ==
    /\ pc = "concat"
    /\ all_embeds' = exc_embeds \o stack_embeds \o mods_embeds
    /\ pages' = PagesOf(exc_embeds, stack_embeds, mods_embeds)
    /\ pc' = "pages"
    /\ UNCHANGED <<cogvars, viewvars, stage, secvars, pagevars, size, ci, fetchvars>>

NextPages ==
    \/ pc = "idle" /\ \E r \in Reports : PagesEnter(r)
    \/ CallSection
    \/ LoopStep
    \/ Exit
    \/ Collect
    \/ PagesReturn

SpecPages == Init /\ [][NextPages]_vars

\* ---------------------------------------------------------- fetch_webpage
Line(toks) == toks
DocLineKinds ==
    { Line(<<"+", "SP", "Exception">>),
      Line(<<"+", "SP", "Enhanced Stacktrace">>),
      Line(<<"+", "SP", "Installed Modules">>),
      Line(<<"+", "SP", "Assemblies">>),
      Line(<<"text">>),
      Line(<<"see", "SP", "Installed Modules", "SP", "list">>),
      Line(<<"at", "SP", "+", "SP", "Exception", "SP", "thrown">>),
      Line(<<"+", "SP", "Harmony", "SP", "(", "v2">>),
      Line(<<"+", "SP", "Assemblies", "SP", "Helper", "SP", "(", "v1">>) }

\* "\n".join(ls)
RECURSIVE JoinLines(_)
JoinLines(ls) ==
    IF ls = <<>> THEN <<>>
    ELSE IF Len(ls) = 1 THEN Head(ls)
    ELSE Head(ls) \o <<"NL">> \o JoinLines(Tail(ls))

Docs == {JoinLines(ls) : ls \in SeqsUpTo(DocLineKinds, MaxDocLines)}

\* Lines 255-261: the page came with status 200 and its text is doc.
FetchTextFrom(at, doc) ==
    /\ pc = at
    /\ full_text' = doc
    /\ pc' = "text"
    /\ UNCHANGED <<viewvars, stage, secvars, pagevars, chunkvars, exception_match,
                   stacktrace_match, modules_match, data>>

FetchText(doc) == FetchTextFrom("idle", doc) /\ UNCHANGED cogvars

\* Lines 263-285.
SearchSections ==
    /\ pc = "text"
    /\ exception_match' = Search(full_text, "Exception")
    /\ stacktrace_match' = Search(full_text, "Enhanced Stacktrace")
    /\ modules_match' = Search(full_text, "Installed Modules")
    /\ pc' = "matched"
    /\ UNCHANGED <<cogvars, viewvars, stage, secvars, pagevars, chunkvars, full_text, data>>

\* Lines 287-301.
ReturnData ==
    /\ pc = "matched"
    /\ data' = [exception |-> IF exception_match.found
                              THEN StripWs(Group1(full_text, exception_match)) ELSE <<>>,
                enhanced_stacktrace |-> IF stacktrace_match.found
                              THEN StripWs(Group1(full_text, stacktrace_match)) ELSE <<>>,
                installed_modules |-> ModNames(full_text, modules_match)]
    /\ pc' = "fetched"
    /\ UNCHANGED <<cogvars, viewvars, stage, secvars, pagevars, chunkvars, full_text, exception_match,
                   stacktrace_match, modules_match>>

NextFetch ==
    \/ pc = "idle" /\ \E doc \in Docs : FetchText(doc)
    \/ SearchSections
    \/ ReturnData

SpecFetch == Init /\ [][NextFetch]_vars

\* ------------------------------------------ analyze_command, on_message
CrashUrl == "https://report.butr.link/abc"
MediaUrl == "https://example.com/shot.png"
Words == {"crash", CrashUrl, MediaUrl}

\* Line 371 and line 423: "report.butr.link" in url.lower()
IsCrashUrl(u) == u = CrashUrl
\* Line 421: word.startswith("http")
StartsWithHttp(w) == w \in {CrashUrl, MediaUrl}

\* The statuses a request comes back with, 200 the one that counts as success.
HTTP_OK == 200
Statuses == {HTTP_OK, 404, 500}

\* The pages analysed by the handlers.
CogDocs == {JoinLines(ls) : ls \in SeqsUpTo(DocLineKinds, MaxCogLines)}

\* What a request comes to: session.get raises, a status other than 200,
\* response.text() raises, or the text of the page.
Responses ==
    {[kind |-> "get_raises", status |-> 0, text |-> <<>>]}
    \cup {[kind |-> "status", status |-> st, text |-> <<>>] : st \in Statuses \ {HTTP_OK}}
    \cup {[kind |-> "text_raises", status |-> HTTP_OK, text |-> <<>>]}
    \cup {[kind |-> "text", status |-> HTTP_OK, text |-> doc] : doc \in CogDocs}

\* Lines 257 and 303: the two dicts that stand for a failure.
StatusError(st) == [error |-> <<"Failed to fetch webpage. HTTP Status: ", st>>]
FetchError(e) == [error |-> <<"Error fetching webpage: ", e>>]

\* "error" in data, without the test.
ErrorIn_never(d) == FALSE

\* Lines 373 and 425: "error" in data
ErrorIn(d) == "error" \in DOMAIN d

\* data.get(key, "")
Get(d, key) == IF key \in DOMAIN d THEN d[key] ELSE <<>>

\* Characters of a token of the page.
TokLen(tok) == IF tok \in {"NL", "SP", "+", "("} THEN 1 ELSE Len(tok)

\* A line of tokens as a line of content: its characters, none of them a
\* backtick or outside ASCII, none of them a space at either end.
LineOfToks(toks) == RawLine(SumSeq([k \in 1..Len(toks) |-> TokLen(toks[k])]), "a")

\* The text of a section as build_pages reads it, line by line.
ContentOfText(t) ==
    IF t = <<>> THEN <<>>
    ELSE LET ls == SplitLines(t) IN [k \in 1..Len(ls) |-> LineOfToks(ls[k])]
\* The module names, joined by line breaks at line 295.
ContentOfNames(names) == [k \in 1..Len(names) |-> LineOfToks(names[k])]

\* A message as the channel gets it.
TextMessage(t) == [kind |-> "text", text |-> t, embeds |-> <<>>, view |-> FALSE]
EmbedsMessage(embs, with_view) ==
    [kind |-> "embeds", text |-> <<>>, embeds |-> embs, view |-> with_view]
FileMessage(t) == [kind |-> "file", text |-> t, embeds |-> <<>>, view |-> FALSE]

\* Lines 365-371: the command arrives with its URL.
AnalyzeCommand(u) ==
    /\ pc = "idle"
    /\ handler' = "analyze_command" /\ url' = u
    /\ pc' = IF IsCrashUrl(u) THEN "get" ELSE "media"
    /\ UNCHANGED <<response, sent, stage, secvars, pagevars, chunkvars, fetchvars, viewvars>>

\* Lines 416-423: a message arrives; the first URL of a crash report is taken.
OnMessage(author_bot, words) ==
    /\ pc = "idle"
    /\ handler' = "on_message"
    /\ LET urls == SelectSeq(words, StartsWithHttp)
           crash == SelectSeq(urls, IsCrashUrl)
       IN  IF author_bot \/ crash = <<>>
           THEN pc' = "done" /\ url' = url
           ELSE pc' = "get" /\ url' = Head(crash)
    /\ UNCHANGED <<response, sent, stage, secvars, pagevars, chunkvars, fetchvars, viewvars>>

\* Lines 254-261 and 302-303: the request of fetch_webpage and its outcome r.
GetPage(r) ==
    /\ pc = "get"
    /\ response' = r
    /\ UNCHANGED <<handler, url, sent>>
    /\ IF r.kind = "text"
       THEN FetchTextFrom("get", r.text)
       ELSE /\ data' = IF r.kind = "status" THEN StatusError(r.status)
                       ELSE FetchError(r.kind)
            /\ pc' = "fetched"
            /\ UNCHANGED <<stage, secvars, pagevars, chunkvars, full_text, exception_match,
                           stacktrace_match, modules_match, viewvars>>

\* Lines 372-380 and 424-433: the error is sent, or build_pages is called.
HandleData ==
    /\ pc = "fetched" /\ handler # "none"
    /\ IF ErrorIn(data)
       THEN /\ sent' = Append(sent, TextMessage(data["error"]))
            /\ pc' = "done"
            /\ UNCHANGED <<handler, url, response, stage, secvars, pagevars, chunkvars,
                           fetchvars, viewvars>>
       ELSE /\ PagesEnterFrom("fetched",
                   <<ContentOfText(Get(data, "exception")),
                     ContentOfText(Get(data, "enhanced_stacktrace")),
                     ContentOfNames(Get(data, "installed_modules"))>>)
            /\ UNCHANGED cogvars

SendOutcomes == {"ok", "size_error", "size_error_unsent", "http_error"}

\* Lines 381-393 and 434-445: the first page is sent, with the view when
\* there are more pages; handle_embed_error sends its file on a size error.
SendPages(outcome) ==
    /\ pc = "pages" /\ handler # "none"
    /\ sent' = CASE outcome = "ok" ->
                       Append(sent, EmbedsMessage(pages[1], Len(pages) # 1))
                 [] outcome = "size_error" ->
                       Append(sent, FileMessage("embed_error_log.txt"))
                 [] outcome = "size_error_unsent" -> sent
                 [] outcome = "http_error" -> sent
    /\ pc' = IF outcome = "http_error" THEN "raised" ELSE "done"
    /\ UNCHANGED <<handler, url, response, stage, secvars, pagevars, chunkvars, fetchvars,
                   viewvars>>

MediaOutcomes == {"status", "ocr_error", "ok", "raises"}

\* Lines 394-413: the URL of an image.
AnalyzeMedia(outcome) ==
    /\ pc = "media"
    /\ response' = [kind |-> outcome, status |-> IF outcome = "status" THEN 404 ELSE HTTP_OK,
                    text |-> <<>>]
    /\ sent' = CASE outcome = "status" ->
                       Append(sent, TextMessage("Failed to fetch the media from the URL."))
                 [] outcome = "ocr_error" ->
                       Append(sent, TextMessage("Error: Failed to analyze image"))
                 [] outcome = "ok" ->
                       Append(sent, EmbedsMessage(<<Embed("Media Analysis")>>, FALSE))
                 [] outcome = "raises" ->
                       Append(sent, TextMessage("Error analyzing the media"))
    /\ pc' = "done"
    /\ UNCHANGED <<handler, url, stage, secvars, pagevars, chunkvars, fetchvars, viewvars>>

NextCog ==
    \/ pc = "idle" /\ \E u \in {CrashUrl, MediaUrl} : AnalyzeCommand(u)
    \/ pc = "idle" /\ \E author_bot \in BOOLEAN, words \in SeqsUpTo(Words, MaxWords) :
                            OnMessage(author_bot, words)
    \/ pc = "get" /\ \E r \in Responses : GetPage(r)
    \/ SearchSections
    \/ ReturnData
    \/ HandleData
    \/ CallSection
    \/ LoopStep
    \/ Exit
    \/ Collect
    \/ PagesReturn
    \/ \E outcome \in SendOutcomes : SendPages(outcome)
    \/ \E outcome \in MediaOutcomes : AnalyzeMedia(outcome)

SpecCog == Init /\ [][NextCog]_vars

\* -------------------------------------------------------- PaginatedEmbeds
Users == {1, 2}

\* The page lists a view is built over, one embed to the page.
ViewPages == {chunk_embeds([k \in 1..m |-> SampleEmbed(k)], 1) : m \in 1..MaxViewPages}

\* Lines 192-196: __init__.
Construct(pgs, invoker) ==
    /\ pc = "idle"
    /\ view_pages' = pgs /\ index' = 0 /\ invoker_id' = invoker
    /\ pc' = "view"
    /\ UNCHANGED <<edits, followups, awaiting, stage, secvars, pagevars, chunkvars,
                   fetchvars, cogvars>>

\* Lines 198-200: interaction.user.id == self.invoker_id
interaction_check(user) == user = invoker_id

\* self.pages[self.index], a negative index counting from the end of the list.
PageAt(pgs, idx) == IF idx >= 0 THEN pgs[idx + 1] ELSE pgs[Len(pgs) + idx + 1]

\* The test of line 210 with the first page left out of it.
HasPrevious_loose(idx) == idx >= 0

\* Line 210: self.index > 0
HasPrevious(idx) == idx > 0
\* Line 220: self.index < len(self.pages) - 1
HasNext(idx, pgs) == idx < Len(pgs) - 1

\* The presses made so far that got past interaction_check.
Presses == Len(edits) + Len(followups)

\* Lines 202-206 and 208-226: a button's callback runs up to its await.  The
\* index is changed and the page to show is read before the callback is
\* suspended, so no other callback runs in between.
Press(button, move, step, note) ==
    /\ pc = "view" /\ Presses < MaxPresses
    /\ IF move
       THEN /\ index' = index + step
            /\ edits' = Append(edits, PageAt(view_pages, index + step))
            /\ followups' = followups
       ELSE /\ followups' = Append(followups, note)
            /\ UNCHANGED <<index, edits>>
    /\ awaiting' = Append(awaiting, [button |-> button, edit |-> move])
    /\ UNCHANGED <<pc, view_pages, invoker_id, stage, secvars, pagevars, chunkvars,
                   fetchvars, cogvars>>

\* Lines 208-216.
previous_button(user) ==
    /\ interaction_check(user)
    /\ Press("Previous", HasPrevious(index), -1, "You're already on the first page!")

\* Lines 218-226.
next_button(user) ==
    /\ interaction_check(user)
    /\ Press("Next", HasNext(index, view_pages), 1, "You're already on the last page!")

\* Lines 198-200: a press by a user interaction_check turns away; no callback
\* runs.
Rejected(user) ==
    /\ pc = "view" /\ ~interaction_check(user)
    /\ UNCHANGED vars

\* The await of a suspended callback completes (lines 203 and 214, 224); the
\* callbacks complete in any order.
Resume(k) ==
    /\ pc \in {"view", "timed_out"} /\ k \in 1..Len(awaiting)
    /\ awaiting' = SubSeq(awaiting, 1, k - 1) \o SubSeq(awaiting, k + 1, Len(awaiting))
    /\ UNCHANGED <<pc, view_pages, index, invoker_id, edits, followups, stage, secvars,
                   pagevars, chunkvars, fetchvars, cogvars>>

\* Line 193: after the timeout the view dispatches no button any more.
Timeout ==
    /\ pc = "view"
    /\ pc' = "timed_out"
    /\ UNCHANGED <<viewvars, stage, secvars, pagevars, chunkvars, fetchvars, cogvars>>

NextView ==
    \/ pc = "idle" /\ \E pgs \in ViewPages, invoker \in Users : Construct(pgs, invoker)
    \/ \E user \in Users : previous_button(user)
    \/ \E user \in Users : next_button(user)
    \/ \E user \in Users : Rejected(user)
    \/ \E k \in 1..MaxPresses : Resume(k)
    \/ Timeout

SpecView == Init /\ [][NextView]_vars

\* ================================================================ claims
\* The lines of a list of embeds, read embed by embed and field by field.
LinesOfEmbed(e) == Flatten(e.fields)
LinesOfEmbeds(embs) == Flatten([k \in 1..Len(embs) |-> LinesOfEmbed(embs[k])])

\* Greedy packing of lines into fields: a field takes lines as long as the
\* joined lines stay within the limit, and one line at least.
RECURSIVE PackFrom(_, _, _)
PackFrom(ls, a, limit) ==
    IF a > Len(ls) THEN <<>>
    ELSE LET b == CHOOSE k \in a..Len(ls) :
                      /\ \A j \in (a + 1)..k : JoinLen(SubSeq(ls, a, j)) <= limit
                      /\ k = Len(ls) \/ JoinLen(SubSeq(ls, a, k + 1)) > limit
         IN  <<SubSeq(ls, a, b)>> \o PackFrom(ls, b + 1, limit)

PackedFields(raw, line_len, field_chars) == PackFrom(Prepare(raw, line_len), 1, field_chars)

\* A field fits alone in a fresh embed without fields.
FitsAlone(f) == embed_size(add_field(Embed(None), f)) <= CARD_BYTE_LIMIT

\* C1: every embed build_embeds_for_section returns, and the embed it is
\* filling at any moment, has a serialized size of at most 6000: a field is
\* added only when the embed with it still measures at most 6000.
C1_EmbedSizeBounded ==
    /\ \A k \in 1..Len(embeds) : embed_size(embeds[k]) <= 6000
    /\ \A k \in 1..Len(ret) : embed_size(ret[k]) <= 6000
    /\ embed_size(current_embed) <= 6000

\* C1 witness: a call returned two embeds, the first closed below the field
\* count because the next field did not fit in it.
C1_Witness ==
    /\ pc = "returned" /\ Len(ret) >= 2
    /\ Len(ret[1].fields) < max_fields_per_embed
    /\ embed_size(add_field(ret[1], ret[2].fields[1])) > 6000

\* C2: with max_line_len 80 and max_field_chars 900, the value of every field
\* emitted (its text between the fences) is at most max_field_chars long.
C2_FencedFieldWithinLimit ==
    (max_line_len = 80 /\ max_field_chars = 900) =>
        \A k \in 1..Len(ret) : \A j \in 1..Len(ret[k].fields) :
            FieldValueLen(ret[k].fields[j]) <= max_field_chars

\* C3: for max_fields_per_embed >= 1, no embed returned or being filled holds
\* more than max_fields_per_embed fields.
C3_FieldCountBounded ==
    (pc # "idle" /\ max_fields_per_embed >= 1) =>
        /\ \A k \in 1..Len(embeds) : Len(embeds[k].fields) <= max_fields_per_embed
        /\ \A k \in 1..Len(ret) : Len(ret[k].fields) <= max_fields_per_embed
        /\ Len(current_embed.fields) <= max_fields_per_embed

\* C3 witness: a call returned an embed holding max_fields_per_embed fields
\* followed by another embed.
C3_Witness ==
    /\ pc = "returned" /\ Len(ret) >= 2
    /\ Len(ret[1].fields) = max_fields_per_embed

\* C5: when build_embeds_for_section returns embeds, the first has the section
\* name as title and the later ones have no title.
C5_FirstEmbedTitled ==
    (pc = "returned" /\ ret # <<>>) =>
        /\ ret[1].title = section_name
        /\ \A k \in 2..Len(ret) : ret[k].title = None

\* C8: content that packs into exactly max_fields_per_embed fields which fit
\* together, under the title, in 6000 comes back as one embed holding them
\* all; and no embed without fields is ever emitted.
C8_ExactCapacityOneEmbed ==
    /\ \A k \in 1..Len(embeds) : Len(embeds[k].fields) > 0
    /\ \A k \in 1..Len(ret) : Len(ret[k].fields) > 0
    /\ pc = "returned" =>
          LET fs == PackedFields(content, max_line_len, max_field_chars)
              one == [Embed(section_name) EXCEPT !.fields = fs]
          IN  (Len(fs) = max_fields_per_embed /\ embed_size(one) <= 6000)
                  => ret = <<one>>

\* C8 witness: a call with max_fields_per_embed >= 2 returned one embed that
\* holds exactly that many fields.
C8_Witness ==
    /\ pc = "returned" /\ max_fields_per_embed >= 2
    /\ Len(ret) = 1 /\ Len(ret[1].fields) = max_fields_per_embed
    /\ Len(PackedFields(content, max_line_len, max_field_chars)) = max_fields_per_embed

\* The lines of the pages build_pages returned, read page by page.
LinesOfPages == LinesOfEmbeds(Flatten(pages))

\* The lines of a section that build_pages is to show: its wrapped lines less
\* those of the fields that do not fit alone in a fresh embed.
ShownLines(raw) ==
    Flatten(SelectSeq(PackedFields(raw, 80, 900), FitsAlone))

\* C4: the lines read from the pages of build_pages are the wrapped lines of
\* Exception, then Enhanced Stacktrace, then Installed Modules, in their order
\* and once each, less the lines of the fields that fit no fresh embed alone.
C4_OrderPreserved ==
    pc = "pages" =>
        LinesOfPages = ShownLines(exception_text) \o ShownLines(stacktrace_text)
                           \o ShownLines(installed_modules_text)

\* C4 witness: build_pages returned pages from which the first wrapped line of
\* the report is absent, its field dropped, and later lines are present.
C4_Witness ==
    /\ pc = "pages" /\ LinesOfPages # <<>>
    /\ LET all == Prepare(exception_text, 80) \o Prepare(stacktrace_text, 80)
                     \o Prepare(installed_modules_text, 80)
       IN  Head(all) # Head(LinesOfPages)

\* C6: the pages chunk_embeds returns, concatenated, are the list it was given;
\* no page is empty, none has more than size embeds and all but the last have
\* exactly size.
C6_PagesPartitionList ==
    pc = "chunked" =>
        /\ Flatten(pages) = all_embeds
        /\ \A k \in 1..Len(pages) :
              /\ 1 <= Len(pages[k]) /\ Len(pages[k]) <= size
              /\ k < Len(pages) => Len(pages[k]) = size

\* C6 witness: chunk_embeds returned several pages, the last one not full.
C6_Witness ==
    /\ pc = "chunked" /\ Len(pages) >= 2
    /\ Len(pages[Len(pages)]) < size

IsPlaceholder(e, title) == e.title = title /\ e.fields = <<>>
NoPlaceholderIn(title) ==
    \A p \in 1..Len(pages) : \A k \in 1..Len(pages[p]) :
        /\ ~IsPlaceholder(pages[p][k], title)
        /\ pages[p][k].fields # <<>>

\* C7 as stated: with no embed from any section, build_pages returns one page
\* of one placeholder embed titled "No Data Found"; otherwise no placeholder.
C7_PlaceholderNoDataFound ==
    pc = "pages" =>
        IF all_embeds = <<>>
        THEN /\ Len(pages) = 1 /\ Len(pages[1]) = 1
             /\ IsPlaceholder(pages[1][1], "No Data Found")
        ELSE NoPlaceholderIn("No Data Found")

\* C7 amended: with no embed from any section, build_pages returns one page of
\* one placeholder embed titled "No Crash Report Data Found"; otherwise no
\* placeholder embed is in the pages.
C7_PlaceholderWhenEmpty ==
    pc = "pages" =>
        IF all_embeds = <<>>
        THEN /\ Len(pages) = 1 /\ Len(pages[1]) = 1
             /\ IsPlaceholder(pages[1][1], "No Crash Report Data Found")
        ELSE NoPlaceholderIn("No Crash Report Data Found")

\* C7 witness: build_pages returned the placeholder for a report whose text
\* was not empty (every field of it was dropped).
C7_Witness ==
    /\ pc = "pages" /\ all_embeds = <<>>
    /\ exception_text \o stacktrace_text \o installed_modules_text # <<>>
    /\ IsPlaceholder(pages[1][1], "No Crash Report Data Found")

\* Position p starts a line of t.
LineStart(t, p) == p = 1 \/ t[p - 1] = "NL"

\* A header starts at p: p starts a line and holds a marker that a heading
\* follows on the same line.
HeaderAt(t, p) ==
    /\ p >= 1 /\ p <= Len(t) /\ LineStart(t, p) /\ t[p] = "+"
    /\ \E q \in (p + 1)..Len(t) :
          t[q] \in headings_pattern /\ \A x \in (p + 1)..(q - 1) : t[x] = "SP"

Matches == <<exception_match, stacktrace_match, modules_match>>

\* C9: in fetch_webpage a section starts only at a header, a marker at the
\* start of a line followed by the label, and ends only at the end of the text
\* or before such a header: a label inside a line starts and ends nothing.
C9_OnlyHeadersDelimit ==
    pc \in {"matched", "fetched"} =>
        \A k \in 1..3 :
            Matches[k].found =>
                /\ HeaderAt(full_text, Matches[k].start)
                /\ Matches[k].to = Len(full_text) \/ HeaderAt(full_text, Matches[k].to + 2)

\* A line that is a header and nothing more: a marker and a heading.
IsHeaderLine(l) ==
    /\ l # <<>> /\ l[1] = "+"
    /\ LET rest == StripWs(SubSeq(l, 2, Len(l)))
       IN  Len(rest) = 1 /\ rest[1] \in headings_pattern
IsHeaderLineOf(l, label) == IsHeaderLine(l) /\ StripWs(SubSeq(l, 2, Len(l))) = <<label>>

\* The name on a module line: what follows the marker, up to a parenthesis.
NameOf(l) ==
    LET body == SubSeq(l, 2, Len(l))
        cut == IF \E k \in 1..Len(body) : body[k] = "("
               THEN (CHOOSE k \in 1..Len(body) :
                        body[k] = "(" /\ \A x \in 1..(k - 1) : body[x] # "(") - 1
               ELSE Len(body)
    IN  StripWs(SubSeq(body, 1, cut))

\* The module lines after the first Installed Modules header line of the text,
\* up to the next header line or the end of the text.
ModuleLinesOf(t) ==
    LET ls == SplitLines(t)
        heads == {k \in 1..Len(ls) : IsHeaderLineOf(ls[k], "Installed Modules")}
        a == CHOOSE k \in heads : \A x \in heads : k <= x
        after == {k \in (a + 1)..Len(ls) : IsHeaderLine(ls[k])}
        b == IF after = {} THEN Len(ls) + 1 ELSE CHOOSE k \in after : \A x \in after : k <= x
    IN  IF heads = {} THEN <<>>
        ELSE SelectSeq(SubSeq(ls, a + 1, b - 1),
                       LAMBDA l : Len(l) >= 2 /\ l[1] = "+" /\ l[2] = "SP" /\ NameOf(l) # <<>>)

\* C10: every module line between the Installed Modules header line and the
\* next line that is a header on its own, or the end of the text, is extracted,
\* a module line that begins with a heading word included.
C10_ModuleLinesAllExtracted ==
    pc = "fetched" =>
        LET expected == ModuleLinesOf(full_text)
        IN  \A k \in 1..Len(expected) :
                \E j \in 1..Len(data.installed_modules) :
                    data.installed_modules[j] = NameOf(expected[k])

\* The fetch of a crash report's page failed: session.get or response.text()
\* raised, or the status was not 200.
FetchFailed ==
    /\ handler \in {"analyze_command", "on_message"} /\ IsCrashUrl(url)
    /\ response.kind \in {"get_raises", "status", "text_raises"}

\* A message that carries the placeholder embed.
HasPlaceholder(m) ==
    \E k \in 1..Len(m.embeds) : IsPlaceholder(m.embeds[k], "No Crash Report Data Found")

\* C11: in analyze_command and on_message, after a failed fetch of a crash
\* report (a status other than 200, or an exception while fetching) build_pages
\* is not called and nothing is sent but the error message, once; a message
\* with the placeholder embed is sent only after a fetch that succeeded and
\* whose sections gave no embed.
C11_FailureSendsOnlyError ==
    /\ FetchFailed =>
          /\ stage = "none" /\ pages = <<>>
          /\ "error" \in DOMAIN data
          /\ \A k \in 1..Len(sent) : sent[k] = TextMessage(data["error"])
          /\ pc = "done" => Len(sent) = 1
          /\ pc \in {"fetched", "done"}
    /\ \A k \in 1..Len(sent) :
          HasPlaceholder(sent[k]) =>
              /\ response.kind = "text" /\ response.status = HTTP_OK
              /\ stage = "done" /\ all_embeds = <<>>

\* A handler has sent the error of a fetch that came back with a status other
\* than 200 and has returned.
C11_Witness ==
    /\ FetchFailed /\ response.kind = "status"
    /\ pc = "done" /\ sent = <<TextMessage(StatusError(response.status).error)>>

\* The callback started by the step, if the step is a press that got past
\* interaction_check.
PressStep == pc = "view" /\ Len(awaiting') = Len(awaiting) + 1
Pressed == awaiting'[Len(awaiting')].button

\* C12: a view over a list of pages that is not empty starts at index 0 and
\* keeps 0 <= index <= len(pages) - 1 whatever the order of the Previous and
\* Next callbacks and of the completion of their awaits; Previous on the first
\* page and Next on the last page leave index as it is and edit no message;
\* any other press moves index by one, in the button's direction, and shows
\* pages[index]; nothing else changes index or edits a message.
C12_IndexWithinPages ==
    /\ [](pc \in {"view", "timed_out"} => index \in 0..(Len(view_pages) - 1))
    /\ [][ /\ (pc = "idle" /\ pc' = "view") => index' = 0 /\ edits' = <<>>
           /\ (PressStep /\ Pressed = "Previous" /\ index = 0) =>
                  index' = index /\ edits' = edits
           /\ (PressStep /\ Pressed = "Next" /\ index = Len(view_pages) - 1) =>
                  index' = index /\ edits' = edits
           /\ (PressStep /\ Pressed = "Previous" /\ index # 0) =>
                  index' = index - 1 /\ edits' = Append(edits, view_pages[index' + 1])
           /\ (PressStep /\ Pressed = "Next" /\ index # Len(view_pages) - 1) =>
                  index' = index + 1 /\ edits' = Append(edits, view_pages[index' + 1])
           /\ (pc # "idle" /\ ~PressStep) => index' = index /\ edits' = edits
         ]_vars

\* Two callbacks are suspended at once, the view has moved forth and back and
\* has turned away a press at an end of the list.
C12_Witness ==
    /\ pc = "view" /\ Len(view_pages) >= 2
    /\ Len(awaiting) >= 2 /\ Len(edits) >= 2 /\ followups # <<>>
    /\ index = 0

====
